---- MODULE Spec2Model ----
(***************************************************************************)
(* A model of git-cola's commit message editor                             *)
(* (cola/widgets/commitmsg.py): the summary and description fields, the    *)
(* toggle actions of the Actions menu, the commit() handler with its       *)
(* dialogs, and the asynchronous commit task with its queued completion    *)
(* notification.                                                           *)
(*                                                                         *)
(* Text is a sequence of one-character strings.  All Qt slots run on the   *)
(* single UI thread, so every handler is one atomic action; a modal dialog *)
(* a handler opens is answered inside that action, the answer being an     *)
(* input of the action.                                                    *)
(***************************************************************************)
EXTENDS Integers, Sequences, FiniteSets, TLC

VARIABLES
    summary,              \* text of self.summary
    description,          \* text of self.description
    focus,                \* which of the two fields has the input focus
    amend,                \* amend_action.isChecked()
    amend_enabled,        \* amend_action.isEnabled()
    sign,                 \* sign_action.isChecked()
    bypass,               \* bypass_commit_hooks_action.isChecked()
    commit_date_checked,  \* commit_date_action.isChecked()
    git_commit_date,      \* self._git_commit_date
    linebreak,            \* self._linebreak
    commit_action_enabled, \* commit_action.isEnabled()
    commit_button_enabled, \* commit_button.isEnabled()
    fields_enabled,       \* summary.isEnabled() and description.isEnabled()
    commitmsg,            \* self.model.commitmsg
    msg_queue,            \* queued model.commit_message_changed notifications
    staged,               \* self.model.staged
    modified,             \* self.model.modified
    running,              \* commit tasks handed to runtask and not yet finished
    finished_queue,       \* queued commit_finished notifications (task results)
    date_uses,            \* history: tasks that carried the date accepted last
    dialog,               \* the CommitDateDialog: its widgets and its last handler
    last_commit_datetime, \* self._last_commit_datetime
    last_commit_datetime_backup, \* self._last_commit_datetime_backup
    resolved,             \* history: the last lookup of a file's icon
    last                  \* history: what the most recent handler showed and submitted

vars == <<summary, description, focus, amend, amend_enabled, sign, bypass,
          commit_date_checked, git_commit_date, linebreak,
          commit_action_enabled, commit_button_enabled, fields_enabled,
          commitmsg, msg_queue, staged, modified, running,
          finished_queue, date_uses, dialog, last_commit_datetime,
          last_commit_datetime_backup, resolved, last>>

-----------------------------------------------------------------------------
(* Bounds *)

\* Longest text a user types or pastes, and longest text a field may hold.
MaxLen == 2
\* Longest queue of pending model notifications.
MaxQueue == 1
\* Most commit tasks between submission and the handling of completion.
MaxInFlight == 2

NL == "\n"
SP == " "
Chars == {"a", SP, NL}
Files == {"f1"}
Dates == {"d1", "d2"}
None == "None"
ExitStatuses == {0, 1}

Texts(n) == UNION {[1..k -> Chars] : k \in 0..n}

\* The texts typed and the messages loaded while the commit workflow is explored.
SampleTexts == {<<>>, <<"a">>}
SampleMessages == {<<>>, <<"a">>, <<"a", NL, NL, "a">>}

\* The messages loaded while parsing and wrapping are explored: no line, one
\* line, two lines, and more lines with and without the blank second line.
ParsedMessages ==
    SampleMessages \cup
    {<<"a", NL, "a">>, <<"a", NL, "a", NL, "a">>}

\* The descriptions typed while parsing and wrapping are explored: the last
\* one is changed by wrapping.
WrapTexts == {<<>>, <<"a">>, <<SP, "a">>}

-----------------------------------------------------------------------------
(* Text helpers: the Python string operations the editor uses *)

\* '\n' in value
HasNL(t) == \E i \in 1..Len(t) : t[i] = NL

\* Index of the first newline of t, 0 when there is none.
RECURSIVE FirstNL(_, _)
FirstNL(t, i) ==
    IF i > Len(t) THEN 0
    ELSE IF t[i] = NL THEN i
    ELSE FirstNL(t, i + 1)

\* str.lstrip('\n')
RECURSIVE LStripNL(_)
LStripNL(t) ==
    IF t # <<>> /\ Head(t) = NL THEN LStripNL(Tail(t)) ELSE t

\* str.splitlines(): lines end at a newline; no empty last line is produced.
RECURSIVE splitlines(_)
splitlines(t) ==
    IF t = <<>> THEN <<>>
    ELSE LET i == FirstNL(t, 1) IN
         IF i = 0 THEN <<t>>
         ELSE <<SubSeq(t, 1, i - 1)>> \o splitlines(SubSeq(t, i + 1, Len(t)))

\* '\n'.join(lines)
RECURSIVE JoinNL(_)
JoinNL(lines) ==
    IF lines = <<>> THEN <<>>
    ELSE IF Len(lines) = 1 THEN lines[1]
    ELSE lines[1] \o <<NL>> \o JoinNL(Tail(lines))

\* str.split(c) for a one-character separator: empty pieces are kept.
RECURSIVE SplitOn(_, _)
SplitOn(t, c) ==
    LET i == IF \E k \in 1..Len(t) : t[k] = c
             THEN CHOOSE k \in 1..Len(t) : t[k] = c /\ \A j \in 1..(k - 1) : t[j] # c
             ELSE 0
    IN  IF i = 0 THEN <<t>>
        ELSE <<SubSeq(t, 1, i - 1)>> \o SplitOn(SubSeq(t, i + 1, Len(t)), c)

-----------------------------------------------------------------------------
(* textwrap.word_wrap: each line is refilled greedily with its words *)

\* prefs.textwidth, the configured wrap width (a small value here).
TextWidth == 2

Words(line) == SelectSeq(SplitOn(line, SP), LAMBDA w : w # <<>>)

RECURSIVE Fill(_, _, _)
Fill(words, cur, width) ==
    IF words = <<>> THEN (IF cur = <<>> THEN <<>> ELSE <<cur>>)
    ELSE LET w == Head(words) IN
         IF cur = <<>> THEN Fill(Tail(words), w, width)
         ELSE IF Len(cur) + 1 + Len(w) <= width
              THEN Fill(Tail(words), cur \o <<SP>> \o w, width)
              ELSE <<cur>> \o Fill(Tail(words), w, width)

word_wrap(text, width) ==
    LET lines == SplitOn(text, NL) IN
    JoinNL([i \in 1..Len(lines) |-> JoinNL(Fill(Words(lines[i]), <<>>, width))])

-----------------------------------------------------------------------------
(* The message functions of CommitMessageEditor *)

\* formatted_description() wrapping whether auto-wrap is on or off.
formatted_description_always_wrapping(text, brk) == word_wrap(text, TextWidth)

\* formatted_description(): the description, wrapped when auto-wrap is on.
formatted_description(text, brk) ==
    IF ~brk THEN text ELSE word_wrap(text, TextWidth)

\* commit_message() joining the fields with a single newline and leaving the
\* description-only message without its two leading newlines.
commit_message_one_newline(s, d, raw, brk) ==
    LET desc == IF raw THEN d ELSE formatted_description(d, brk) IN
    IF s # <<>> /\ desc # <<>> THEN s \o <<NL>> \o desc
    ELSE IF s # <<>> THEN s
    ELSE desc

\* commit_message(raw): the joined message of the two fields.
commit_message(s, d, raw, brk) ==
    LET desc == IF raw THEN d ELSE formatted_description(d, brk) IN
    IF s # <<>> /\ desc # <<>> THEN s \o <<NL, NL>> \o desc
    ELSE IF s # <<>> THEN s
    ELSE IF desc # <<>> THEN <<NL, NL>> \o desc
    ELSE <<>>

\* set_commit_message(): the summary parsed from a message.
ParseSummary(message) ==
    LET lines == splitlines(message) IN
    IF Len(lines) = 0 THEN <<>> ELSE lines[1]

\* set_commit_message() dropping the second line whether it is blank or not.
ParseDescription_always_skipping(message) ==
    LET lines == splitlines(message)
        n == Len(lines)
    IN  IF n <= 1 THEN <<>>
        ELSE IF n = 2 THEN lines[2]
        ELSE JoinNL(SubSeq(lines, 3, n))

\* set_commit_message(): the description parsed from a message.
ParseDescription(message) ==
    LET lines == splitlines(message)
        n == Len(lines)
    IN  IF n <= 1 THEN <<>>
        ELSE IF n = 2 THEN lines[2]
        ELSE IF lines[2] # <<>> THEN JoinNL(SubSeq(lines, 2, n))
        ELSE JoinNL(SubSeq(lines, 3, n))

\* commit_summary_changed(): the summary kept from a value holding a newline.
SplitSummary(value) == SubSeq(value, 1, FirstNL(value, 1) - 1)

\* commit_summary_changed() replacing the description instead of prepending.
SplitDescription_replacing(value, cur_description) ==
    LStripNL(SubSeq(value, FirstNL(value, 1) + 1, Len(value)))

\* commit_summary_changed(): the description built from the rest of the value.
SplitDescription(value, cur_description) ==
    LET rest == LStripNL(SubSeq(value, FirstNL(value, 1) + 1, Len(value))) IN
    IF cur_description # <<>> THEN rest \o <<NL>> \o cur_description ELSE rest

-----------------------------------------------------------------------------
(* Dialogs and task requests *)

MissingMessage == <<"Missing Commit Message", "ok">>
NothingToCommit == <<"Nothing to commit", "ok">>
StagePrompt(answer) == <<"Stage and commit?", IF answer THEN "yes" ELSE "no">>
AmendPrompt(answer) == <<"Rewrite Published Commit?", IF answer THEN "yes" ELSE "no">>
DateDialog(answer) == <<"Set Commit Date", IF answer THEN "accepted" ELSE "cancelled">>

NoRequest ==
    [amend |-> FALSE, msg |-> <<>>, sign |-> FALSE, no_verify |-> FALSE, date |-> None]

\* What a handler that shows nothing and submits nothing leaves behind; value
\* is the text with a newline that entered the summary, or the message that
\* was delivered, for the handlers of these.
Quiet ==
    [kind |-> "none", dialogs |-> <<>>, is_merging |-> FALSE, published |-> FALSE,
     check_published |-> FALSE, submitted |-> FALSE, request |-> NoRequest,
     status |-> 0, value |-> <<>>]

InFlight == running + Len(finished_queue)

-----------------------------------------------------------------------------
(* CommitDateDialog: the slider and the time field *)

\* CommitDateDialog.slider_range
slider_range == 500
seconds_per_day == 86400
seconds_range == seconds_per_day - 1

\* The days the calendar shows and the times of day a user types.
Days == {"day1", "day2"}
SampleTimes == {0, 345, 43200, seconds_range}
\* The positions a user drags the slider to; the tick buttons reach the others.
SliderDrags == {0, 1, 250, slider_range}

\* What `git log -1 --format=%aI HEAD` prints: nothing, text that is no ISO
\* date, or the ISO date of a day and a time of day.
LogOutputs ==
    {[text |-> "", day |-> "day1", time |-> 0],
     [text |-> "garbage", day |-> "day1", time |-> 0],
     [text |-> "iso", day |-> "day2", time |-> 345],
     [text |-> "iso", day |-> "day1", time |-> seconds_range]}
\* datetime.datetime.now()
Nows == {[day |-> "day1", time |-> 43200]}

\* _update_time_from_slider() rounding to the nearest second.
slider_to_seconds_rounding(value) ==
    (2 * value * seconds_range + slider_range) \div (2 * slider_range)

\* _update_time_from_slider(): int(value / slider_range * seconds_range).
\* The exact quotient is whole only at the two ends of the slider and
\* otherwise at least 1/500 away from a whole number, so the floating point
\* product truncates to the whole-number quotient.
slider_to_seconds(value) == (value * seconds_range) \div slider_range

\* _update_slider_from_time(): int(slider_range * (seconds / seconds_range)).
\* The exact quotient is whole only at 0 and at seconds_range and otherwise
\* at least 1/86399 away from a whole number.
seconds_to_slider(seconds) == (slider_range * seconds) \div seconds_range

\* QSlider.setValue keeps the value inside the slider's range.
ClampSlider(value) ==
    IF value < 0 THEN 0 ELSE IF value > slider_range THEN slider_range ELSE value

\* _get_latest_commit_datetime() trusting the output whatever the status.
get_latest_commit_datetime_ignoring_status(status, out, now) ==
    IF out.text # "iso" THEN now ELSE [day |-> out.day, time |-> out.time]

\* _get_latest_commit_datetime(context): the authored time of HEAD, or the
\* current time when the query fails, prints nothing or prints no ISO date.
get_latest_commit_datetime(status, out, now) ==
    IF status # 0 \/ out.text = "" THEN now
    ELSE IF out.text # "iso" THEN now        \* fromisoformat raises ValueError
    ELSE [day |-> out.day, time |-> out.time]

NoQuery == [status |-> 0, out |-> CHOOSE o \in LogOutputs : o.text = "", now |-> CHOOSE n \in Nows : TRUE]

\* No dialog has been constructed.  time is the time field in seconds since
\* midnight, slider the slider's value, day the calendar's date; kind, input,
\* query and writes tell which handler ran last, with which value from the
\* user or which answer from git, and which widgets it wrote.
NoDialog ==
    [open |-> FALSE, time |-> 0, slider |-> 0, day |-> "day1", kind |-> "none",
     input |-> 0, query |-> NoQuery, writes |-> <<>>]

-----------------------------------------------------------------------------
(* The commit dates the editor remembers *)

\* self._last_commit_datetime = None
NoDatetime == [day |-> "none", time |-> 0]

\* widget.datetime() of a dialog accepted with commit_date: commit_date is
\* that datetime formatted for git.
DatetimeOf(commit_date) ==
    IF commit_date = "d1" THEN [day |-> "day1", time |-> 345]
    ELSE [day |-> "day2", time |-> seconds_range]

NextDay(day) == IF day = "day1" THEN "day2" ELSE "day3"

\* CommitDateDialog.tick_time(): one slider tick, 172 seconds, later.
tick_time(commit_datetime) ==
    LET one_tick == seconds_range \div slider_range
        seconds == commit_datetime.time + one_tick
    IN  IF seconds < seconds_per_day
        THEN [day |-> commit_datetime.day, time |-> seconds]
        ELSE [day |-> NextDay(commit_datetime.day), time |-> seconds - seconds_per_day]

\* What _get_latest_commit_datetime() can return.
LatestCommitDatetimes ==
    {get_latest_commit_datetime(status, out, now) :
        status \in ExitStatuses, out \in LogOutputs, now \in Nows}

-----------------------------------------------------------------------------
(* cola/icons.py: the icon of a file *)

Uppers == <<"A", "B", "C", "D", "E", "F", "G", "H", "I", "J", "K", "L", "M", "N", "O", "P", "Q", "R", "S", "T", "U", "V", "W", "X", "Y", "Z">>
Lowers == <<"a", "b", "c", "d", "e", "f", "g", "h", "i", "j", "k", "l", "m", "n", "o", "p", "q", "r", "s", "t", "u", "v", "w", "x", "y", "z">>

\* str.lower() on the letters A..Z.
lower(t) ==
    [i \in 1..Len(t) |->
        IF \E k \in 1..Len(Uppers) : Uppers[k] = t[i]
        THEN Lowers[CHOOSE k \in 1..Len(Uppers) : Uppers[k] = t[i]]
        ELSE t[i]]

\* sub in t
Contains(sub, t) ==
    \E i \in 0..(Len(t) - Len(sub)) : SubSeq(t, i + 1, i + Len(sub)) = sub

\* Index of the last c in t, 0 when there is none.
LastIndex(t, c) ==
    IF \E i \in 1..Len(t) : t[i] = c
    THEN CHOOSE i \in 1..Len(t) : t[i] = c /\ \A j \in (i + 1)..Len(t) : t[j] # c
    ELSE 0

\* os.path.splitext(filename)[1]: the text from the last dot of the last path
\* component on, empty when that component has no dot or only leading dots.
splitext(filename) ==
    LET sep == LastIndex(filename, "/")
        dot == LastIndex(filename, ".")
    IN  IF dot > sep /\ \E i \in (sep + 1)..(dot - 1) : filename[i] # "."
        THEN SubSeq(filename, dot, Len(filename))
        ELSE <<>>

KNOWN_FILE_MIME_TYPES ==
    <<[filetype |-> <<"t", "e", "x", "t">>, icon_name |-> "file-code.svg"],
      [filetype |-> <<"i", "m", "a", "g", "e">>, icon_name |-> "file-media.svg"],
      [filetype |-> <<"o", "c", "t", "e", "t">>, icon_name |-> "file-binary.svg"]>>

\* The keys of KNOWN_FILE_EXTENSIONS; every one of them maps to file-code.svg.
KNOWN_FILE_EXTENSIONS ==
    {<<".", "b", "a", "s", "h">>,
     <<".", "c">>,
     <<".", "c", "p", "p">>,
     <<".", "c", "s", "s">>,
     <<".", "c", "x", "x">>,
     <<".", "h">>,
     <<".", "h", "p", "p">>,
     <<".", "h", "s">>,
     <<".", "h", "t", "m", "l">>,
     <<".", "j", "a", "v", "a">>,
     <<".", "j", "s">>,
     <<".", "k", "s", "h">>,
     <<".", "l", "i", "s", "p">>,
     <<".", "p", "e", "r", "l">>,
     <<".", "p", "l">>,
     <<".", "p", "y">>,
     <<".", "r", "b">>,
     <<".", "r", "s">>,
     <<".", "s", "h">>,
     <<".", "z", "s", "h">>}

\* core.guess_mimetype() found no type.
NoMime == <<"?">>

\* The types core.guess_mimetype() answers with, and the file names asked for.
MimeTypes ==
    {<<"t", "e", "x", "t", "/", "p", "l", "a", "i", "n">>,
     <<"T", "E", "X", "T", "/", "X", "-", "P", "Y", "T", "H", "O", "N">>,
     <<"i", "m", "a", "g", "e", "/", "p", "n", "g">>,
     <<"a", "p", "p", "l", "i", "c", "a", "t", "i", "o", "n", "/", "o", "c", "t", "e", "t", "-", "s", "t", "r", "e", "a", "m">>,
     <<"a", "p", "p", "l", "i", "c", "a", "t", "i", "o", "n", "/", "p", "d", "f">>,
     <<"i", "m", "a", "g", "e", "/", "v", "n", "d", ".", "v", "a", "l", "v", "e", ".", "s", "o", "u", "r", "c", "e", ".", "t", "e", "x", "t", "u", "r", "e">>,
     <<"a", "p", "p", "l", "i", "c", "a", "t", "i", "o", "n", "/", "x", "-", "t", "e", "x">>}
Filenames ==
    {<<"a", ".", "p", "y">>,
     <<"a", ".", "P", "Y">>,
     <<"a", ".", "P", "y">>,
     <<".", "p", "y">>,
     <<"a">>,
     <<"a", ".", "t", "x", "t">>,
     <<"a", ".", "p", "n", "g">>,
     <<"a", ".", "b", "/", "c">>,
     <<"a", ".", "t", "a", "r", ".", "s", "h">>,
     <<"a", ".">>,
     <<"A", ".", "C", "P", "P">>,
     <<"a", ".", "p", "y", "c">>,
     <<"a", ".", "v", "t", "f">>,
     <<"d", "/", ".", "z", "s", "h">>,
     <<"a", ".", "R", "S">>}

\* basename_from_filename() looking the extension up as it is written.
basename_from_filename_case_sensitive(filename, mimetype) ==
    LET lowered == lower(mimetype)
        matches == {i \in 1..Len(KNOWN_FILE_MIME_TYPES) :
                      Contains(KNOWN_FILE_MIME_TYPES[i].filetype, lowered)}
    IN  IF mimetype # NoMime /\ matches # {}
        THEN KNOWN_FILE_MIME_TYPES[CHOOSE i \in matches : \A j \in matches : i <= j].icon_name
        ELSE IF splitext(filename) \in KNOWN_FILE_EXTENSIONS
        THEN "file-code.svg" ELSE "file-text.svg"

\* basename_from_filename(filename), mimetype being what core.guess_mimetype
\* answers for the file name.
basename_from_filename(filename, mimetype) ==
    LET lowered == lower(mimetype)
        matches == {i \in 1..Len(KNOWN_FILE_MIME_TYPES) :
                      Contains(KNOWN_FILE_MIME_TYPES[i].filetype, lowered)}
    IN  IF mimetype # NoMime /\ matches # {}
        THEN KNOWN_FILE_MIME_TYPES[CHOOSE i \in matches : \A j \in matches : i <= j].icon_name
        ELSE IF lower(splitext(filename)) \in KNOWN_FILE_EXTENSIONS
        THEN "file-code.svg" ELSE "file-text.svg"

\* No icon has been looked up.
NoLookup == [done |-> FALSE, filename |-> <<>>, mimetype |-> NoMime, basename |-> ""]

-----------------------------------------------------------------------------
(* Initial state: CommitMessageEditor.__init__ *)

Init ==
    /\ summary = <<>>
    /\ description = <<>>
    /\ focus = "summary"
    /\ amend = FALSE
    /\ amend_enabled = TRUE
    /\ sign = FALSE                   \* cfg.get('cola.signcommits', default=False)
    /\ bypass = FALSE
    /\ commit_date_checked = FALSE
    /\ git_commit_date = None
    /\ linebreak = TRUE               \* prefs.linebreak(context), on by default
    /\ commit_action_enabled = FALSE   \* commit_group.setEnabled(False)
    /\ commit_button_enabled = FALSE
    /\ fields_enabled = TRUE
    /\ \E m \in SampleTexts :          \* model.set_commitmsg(commit_msg)
          /\ commitmsg = m
          /\ msg_queue = <<m>>
    /\ staged \in SUBSET Files
    /\ modified \in SUBSET Files
    /\ running = 0
    /\ finished_queue = <<>>
    /\ date_uses = 0
    /\ dialog = NoDialog
    /\ last_commit_datetime = NoDatetime
    /\ last_commit_datetime_backup = NoDatetime
    /\ resolved = NoLookup
    /\ last = Quiet

-----------------------------------------------------------------------------
(* Editing the fields *)

\* update_actions(): whether commit_group gets enabled.
update_actions(s) == s # <<>>

\* The user changes the summary text to `value` (typing or pasting):
\* summary.textChanged -> commit_summary_changed -> _commit_message_changed.
commit_summary_changed(value) ==
    /\ fields_enabled
    /\ value # summary
    /\ LET s == IF HasNL(value) THEN SplitSummary(value) ELSE value
           d == IF HasNL(value) THEN SplitDescription(value, description)
                ELSE description
       IN  /\ HasNL(value) => Len(d) <= MaxLen
           /\ summary' = s
           /\ description' = d
           /\ commitmsg' = commit_message(s, d, TRUE, linebreak)
           /\ commit_action_enabled' = update_actions(s)
           /\ commit_button_enabled' = update_actions(s)
    /\ last' = IF HasNL(value)
               THEN [Quiet EXCEPT !.kind = "paste", !.value = value]
               ELSE [Quiet EXCEPT !.kind = "edit"]
    /\ UNCHANGED <<focus, amend, amend_enabled, sign, bypass,
                   commit_date_checked, git_commit_date, linebreak,
                   fields_enabled, msg_queue, staged, modified, running,
                   finished_queue, date_uses,
                   dialog,
                   last_commit_datetime, last_commit_datetime_backup,
                   resolved>>

\* _commit_message_changed() pushing the message with notification, so that
\* the editor is told about its own edit.
commit_description_changed_notifying(value) ==
    /\ fields_enabled
    /\ value # description
    /\ description' = value
    /\ commitmsg' = commit_message(summary, value, TRUE, linebreak)
    /\ msg_queue' = Append(msg_queue, commitmsg')
    /\ commit_action_enabled' = update_actions(summary)
    /\ commit_button_enabled' = update_actions(summary)
    /\ last' = [Quiet EXCEPT !.kind = "edit"]
    /\ UNCHANGED <<summary, focus, amend, amend_enabled, sign, bypass,
                   commit_date_checked, git_commit_date, linebreak,
                   fields_enabled, staged, modified, running,
                   finished_queue, date_uses,
                   dialog,
                   last_commit_datetime, last_commit_datetime_backup,
                   resolved>>

\* The user changes the description text to `value`:
\* description.textChanged -> _commit_message_changed.
commit_description_changed(value) ==
    /\ fields_enabled
    /\ value # description
    /\ description' = value
    /\ commitmsg' = commit_message(summary, value, TRUE, linebreak)
    /\ commit_action_enabled' = update_actions(summary)
    /\ commit_button_enabled' = update_actions(summary)
    /\ last' = [Quiet EXCEPT !.kind = "edit"]
    /\ UNCHANGED <<summary, focus, amend, amend_enabled, sign, bypass,
                   commit_date_checked, git_commit_date, linebreak,
                   fields_enabled, msg_queue, staged, modified, running,
                   finished_queue, date_uses,
                   dialog,
                   last_commit_datetime, last_commit_datetime_backup,
                   resolved>>

\* summary.accepted / down_pressed -> focus_description; description.leave ->
\* focus_summary.
move_focus ==
    /\ fields_enabled
    /\ focus' = IF focus = "summary" THEN "description" ELSE "summary"
    /\ last' = Quiet
    /\ UNCHANGED <<summary, description, amend, amend_enabled, sign, bypass,
                   commit_date_checked, git_commit_date, linebreak,
                   commit_action_enabled, commit_button_enabled, fields_enabled,
                   commitmsg, msg_queue, staged, modified, running,
                   finished_queue, date_uses,
                   dialog,
                   last_commit_datetime, last_commit_datetime_backup,
                   resolved>>

\* model.set_commitmsg(message) called with notify on: the model keeps the
\* message and queues commit_message_changed for the editor.
set_commitmsg(message) ==
    /\ Len(msg_queue) < MaxQueue
    /\ commitmsg' = message
    /\ msg_queue' = Append(msg_queue, message)

\* Another part of the application loads a message into the model.
load_commitmsg(message) ==
    /\ set_commitmsg(message)
    /\ last' = Quiet
    /\ UNCHANGED <<summary, description, focus, amend, amend_enabled, sign,
                   bypass, commit_date_checked, git_commit_date, linebreak,
                   commit_action_enabled, commit_button_enabled, fields_enabled,
                   staged, modified, running, finished_queue, date_uses,
                   dialog,
                   last_commit_datetime, last_commit_datetime_backup,
                   resolved>>

\* clear(): after the confirmation the model's message is emptied.
clear(confirmed) ==
    /\ IF confirmed
       THEN /\ set_commitmsg(<<>>)
            /\ last' = [Quiet EXCEPT !.kind = "clear",
                                     !.dialogs = <<<<"Clear commit message?", "yes">>>>]
       ELSE /\ UNCHANGED <<commitmsg, msg_queue>>
            /\ last' = [Quiet EXCEPT !.kind = "clear",
                                     !.dialogs = <<<<"Clear commit message?", "no">>>>]
    /\ UNCHANGED <<summary, description, focus, amend, amend_enabled, sign,
                   bypass, commit_date_checked, git_commit_date, linebreak,
                   commit_action_enabled, commit_button_enabled, fields_enabled,
                   staged, modified, running, finished_queue, date_uses,
                   dialog,
                   last_commit_datetime, last_commit_datetime_backup,
                   resolved>>

\* set_commit_message(message): the queued commit_message_changed notification
\* is delivered; both fields are set with their signals blocked.
set_commit_message ==
    /\ msg_queue # <<>>
    /\ LET message == Head(msg_queue)
           s == ParseSummary(message)
           d == ParseDescription(message)
       IN  /\ summary' = s
           /\ description' = d
           /\ focus' = IF s = <<>> THEN "summary"
                       ELSE IF d = <<>> THEN "description"
                       ELSE focus
           /\ commit_action_enabled' = update_actions(s)
           /\ commit_button_enabled' = update_actions(s)
    /\ msg_queue' = Tail(msg_queue)
    /\ last' = [Quiet EXCEPT !.kind = "message", !.value = Head(msg_queue)]
    /\ UNCHANGED <<amend, amend_enabled, sign, bypass, commit_date_checked,
                   git_commit_date, linebreak, fields_enabled, commitmsg, staged,
                   modified, running, finished_queue, date_uses,
                   dialog,
                   last_commit_datetime, last_commit_datetime_backup,
                   resolved>>

-----------------------------------------------------------------------------
(* The toggle actions of the Actions menu *)

\* set_mode(mode): the amend check box follows the model's mode and is
\* enabled unless a merge is in progress; the remembered commit date is
\* stored when the mode is amend and restored otherwise.  latest is what
\* _get_latest_commit_datetime() returns.
set_mode(mode, is_merging, latest) ==
    /\ amend_enabled' = ~is_merging
    /\ amend' = (mode = "amend")
    /\ IF mode = "amend"
       THEN /\ last_commit_datetime_backup' = last_commit_datetime
            /\ last_commit_datetime' = latest
       ELSE /\ last_commit_datetime' = last_commit_datetime_backup
            /\ last_commit_datetime_backup' = NoDatetime
    /\ last' = [Quiet EXCEPT !.kind = "mode"]
    /\ UNCHANGED <<summary, description, focus, sign, bypass,
                   commit_date_checked, git_commit_date, linebreak,
                   commit_action_enabled, commit_button_enabled, fields_enabled,
                   commitmsg, msg_queue, staged, modified, running,
                   finished_queue, date_uses,
                   dialog,
                   resolved>>

\* The user checks or unchecks "Amend Last Commit".
toggle_amend ==
    /\ amend_enabled
    /\ amend' = ~amend
    /\ last' = Quiet
    /\ UNCHANGED <<summary, description, focus, amend_enabled, sign, bypass,
                   commit_date_checked, git_commit_date, linebreak,
                   commit_action_enabled, commit_button_enabled, fields_enabled,
                   commitmsg, msg_queue, staged, modified, running,
                   finished_queue, date_uses,
                   dialog,
                   last_commit_datetime, last_commit_datetime_backup,
                   resolved>>

\* The user checks or unchecks "Create Signed Commit".
toggle_sign ==
    /\ sign' = ~sign
    /\ last' = Quiet
    /\ UNCHANGED <<summary, description, focus, amend, amend_enabled, bypass,
                   commit_date_checked, git_commit_date, linebreak,
                   commit_action_enabled, commit_button_enabled, fields_enabled,
                   commitmsg, msg_queue, staged, modified, running,
                   finished_queue, date_uses,
                   dialog,
                   last_commit_datetime, last_commit_datetime_backup,
                   resolved>>

\* The user checks or unchecks "Bypass Commit Hooks".
toggle_bypass ==
    /\ bypass' = ~bypass
    /\ last' = Quiet
    /\ UNCHANGED <<summary, description, focus, amend, amend_enabled, sign,
                   commit_date_checked, git_commit_date, linebreak,
                   commit_action_enabled, commit_button_enabled, fields_enabled,
                   commitmsg, msg_queue, staged, modified, running,
                   finished_queue, date_uses,
                   dialog,
                   last_commit_datetime, last_commit_datetime_backup,
                   resolved>>

\* set_linebreak(brk): the user checks or unchecks "Auto-Wrap Lines".
set_linebreak(brk) ==
    /\ brk # linebreak
    /\ linebreak' = brk
    /\ last' = Quiet
    /\ UNCHANGED <<summary, description, focus, amend, amend_enabled, sign,
                   bypass, commit_date_checked, git_commit_date,
                   commit_action_enabled, commit_button_enabled, fields_enabled,
                   commitmsg, msg_queue, staged, modified, running,
                   finished_queue, date_uses,
                   dialog,
                   last_commit_datetime, last_commit_datetime_backup,
                   resolved>>

\* set_commit_date() leaving the action checked when the dialog is cancelled.
set_commit_date_cancel_keeps_checked(accepted, commit_date) ==
    /\ IF commit_date_checked
       THEN /\ commit_date_checked' = FALSE
            /\ git_commit_date' = None
            /\ last' = Quiet
            /\ UNCHANGED <<date_uses, last_commit_datetime>>
       ELSE IF accepted
       THEN /\ commit_date_checked' = TRUE
            /\ git_commit_date' = commit_date
            /\ date_uses' = 0
            /\ last' = [Quiet EXCEPT !.kind = "date", !.dialogs = <<DateDialog(TRUE)>>]
            /\ last_commit_datetime' = tick_time(DatetimeOf(commit_date))
       ELSE /\ commit_date_checked' = TRUE
            /\ last' = [Quiet EXCEPT !.kind = "date", !.dialogs = <<DateDialog(FALSE)>>]
            /\ UNCHANGED <<git_commit_date, date_uses, last_commit_datetime>>
    /\ UNCHANGED <<summary, description, focus, amend, amend_enabled, sign,
                   bypass, linebreak, commit_action_enabled,
                   commit_button_enabled, fields_enabled, commitmsg, msg_queue,
                   staged, modified, running, finished_queue,
                   dialog,
                   last_commit_datetime_backup, resolved>>

\* set_commit_date(enabled): the user triggers "Set Commit Date"; Qt flips the
\* check mark and calls the slot with the new mark.  Unchecking forgets the
\* date; checking opens the date dialog, which is accepted with a formatted
\* date or cancelled.
set_commit_date(accepted, commit_date) ==
    /\ IF commit_date_checked
       THEN \* enabled = False
            /\ commit_date_checked' = FALSE
            /\ git_commit_date' = None
            /\ last' = Quiet
            /\ UNCHANGED <<date_uses, last_commit_datetime>>
       ELSE IF accepted
       THEN /\ commit_date_checked' = TRUE
            /\ git_commit_date' = commit_date
            /\ date_uses' = 0
            /\ last' = [Quiet EXCEPT !.kind = "date", !.dialogs = <<DateDialog(TRUE)>>]
            /\ last_commit_datetime' = tick_time(DatetimeOf(commit_date))
       ELSE /\ commit_date_checked' = FALSE
            /\ last' = [Quiet EXCEPT !.kind = "date", !.dialogs = <<DateDialog(FALSE)>>]
            /\ UNCHANGED <<git_commit_date, date_uses, last_commit_datetime>>
    /\ UNCHANGED <<summary, description, focus, amend, amend_enabled, sign,
                   bypass, linebreak, commit_action_enabled,
                   commit_button_enabled, fields_enabled, commitmsg, msg_queue,
                   staged, modified, running, finished_queue,
                   dialog,
                   last_commit_datetime_backup, resolved>>

\* The repository's status changes under the editor (files are edited,
\* staged or unstaged elsewhere) and the model is refreshed.
update_status(new_staged, new_modified) ==
    /\ <<new_staged, new_modified>> # <<staged, modified>>
    /\ staged' = new_staged
    /\ modified' = new_modified
    /\ last' = Quiet
    /\ UNCHANGED <<summary, description, focus, amend, amend_enabled, sign,
                   bypass, commit_date_checked, git_commit_date, linebreak,
                   commit_action_enabled, commit_button_enabled, fields_enabled,
                   commitmsg, msg_queue, running, finished_queue, date_uses,
                   dialog,
                   last_commit_datetime, last_commit_datetime_backup,
                   resolved>>

-----------------------------------------------------------------------------
(* commit(): the checks, in the order of the code *)

\* commit() without the check of the summary.
summary_missing_unchecked(s) == FALSE

\* not bool(get(self.summary))
summary_missing(s) == s = <<>>

\* commit() without the check for staged changes.
nothing_staged_unchecked(stagedv, is_merging) == FALSE

\* not (self.model.staged or self.model.is_merging)
nothing_staged(stagedv, is_merging) == ~(stagedv # {} \/ is_merging)

\* The confirmation asked only for commits that are not published.
amend_needs_confirmation_negated(amendv, check_published, published) ==
    amendv /\ check_published /\ ~published

\* amend and check_published and self.model.is_commit_published()
amend_needs_confirmation(amendv, check_published, published) ==
    amendv /\ check_published /\ published

\* cmds.do(cmds.StageModified, context): every modified file gets staged.
StageModified(stagedv, modifiedv) ==
    [staged |-> stagedv \cup modifiedv, modified |-> {}]

\* commit() asking the amend confirmation before it looks at the staged files.
commit_checks_amend_first(s, stagedv, modifiedv, is_merging, amendv, check_published, published, accept_stage, confirm_amend) ==
    IF s = <<>>
    THEN [dialogs |-> <<MissingMessage>>, stage |-> FALSE, submit |-> FALSE]
    ELSE LET ask == amendv /\ check_published /\ published
             first == IF ask THEN <<AmendPrompt(confirm_amend)>> ELSE <<>>
             nothing == ~(stagedv # {} \/ is_merging)
         IN  IF ask /\ ~confirm_amend
             THEN [dialogs |-> first, stage |-> FALSE, submit |-> FALSE]
             ELSE IF nothing /\ modifiedv = {}
             THEN [dialogs |-> Append(first, NothingToCommit), stage |-> FALSE,
                   submit |-> FALSE]
             ELSE IF nothing
             THEN [dialogs |-> Append(first, StagePrompt(accept_stage)),
                   stage |-> accept_stage, submit |-> accept_stage]
             ELSE [dialogs |-> first, stage |-> FALSE, submit |-> TRUE]

\* The dialogs commit() shows, whether it stages the modified files and
\* whether it goes on to submit, for the given state and answers.
commit_checks(s, stagedv, modifiedv, is_merging, amendv, check_published, published, accept_stage, confirm_amend) ==
    IF summary_missing(s)
    THEN [dialogs |-> <<MissingMessage>>, stage |-> FALSE, submit |-> FALSE]
    ELSE IF nothing_staged(stagedv, is_merging) /\ modifiedv = {}
    THEN [dialogs |-> <<NothingToCommit>>, stage |-> FALSE, submit |-> FALSE]
    ELSE IF nothing_staged(stagedv, is_merging) /\ ~accept_stage
    THEN [dialogs |-> <<StagePrompt(FALSE)>>, stage |-> FALSE, submit |-> FALSE]
    ELSE LET stage == nothing_staged(stagedv, is_merging)
             shown == IF stage THEN <<StagePrompt(TRUE)>> ELSE <<>>
         IN  IF amend_needs_confirmation(amendv, check_published, published)
             THEN [dialogs |-> Append(shown, AmendPrompt(confirm_amend)),
                   stage |-> stage, submit |-> confirm_amend]
             ELSE [dialogs |-> shown, stage |-> stage, submit |-> TRUE]

\* The date handed to the task: self._git_commit_date if the action is checked.
task_date(checked, date) == IF checked THEN date ELSE None

\* The bypass toggle left as it is when a task is built.
bypass_after_commit_kept(submitted, checked) == checked

\* The bypass toggle reset at the start of commit(), before the checks.
bypass_after_commit_always_off(submitted, checked) == FALSE

\* bypass_commit_hooks_action.setChecked(False), reached when a task is built.
bypass_after_commit(submitted, checked) == IF submitted THEN FALSE ELSE checked

\* The date action left checked when a task is built.
date_checked_after_commit_kept(submitted, checked) == checked

\* commit_date_action.setChecked(False), reached when a task is built and the
\* action is checked.
date_checked_after_commit(submitted, checked) ==
    IF submitted THEN FALSE ELSE checked

\* commit(), started from the commit button or from commit_action (its hotkey
\* or its entry in the Actions menu).
commit(via, is_merging, published, check_published, accept_stage, confirm_amend) ==
    /\ IF via = "button" THEN commit_button_enabled ELSE commit_action_enabled
    /\ LET c == commit_checks(summary, staged, modified, is_merging, amend,
                              check_published, published, accept_stage,
                              confirm_amend)
           files == IF c.stage THEN StageModified(staged, modified)
                    ELSE [staged |-> staged, modified |-> modified]
           request == [amend |-> amend,
                       msg |-> commit_message(summary, description, FALSE, linebreak),
                       sign |-> sign,
                       no_verify |-> bypass,
                       date |-> task_date(commit_date_checked, git_commit_date)]
       IN  /\ staged' = files.staged
           /\ modified' = files.modified
           /\ bypass' = bypass_after_commit(c.submit, bypass)
           /\ commit_date_checked' = date_checked_after_commit(c.submit, commit_date_checked)
           /\ running' = IF c.submit THEN running + 1 ELSE running
           /\ date_uses' = IF c.submit /\ request.date # None
                           THEN date_uses + 1 ELSE date_uses
           \* runtask.start(..., progress=self.commit_progress_bar)
           /\ commit_button_enabled' = IF c.submit THEN FALSE ELSE commit_button_enabled
           /\ fields_enabled' = IF c.submit THEN FALSE ELSE fields_enabled
           /\ last' = [kind |-> "commit", dialogs |-> c.dialogs,
                       is_merging |-> is_merging, published |-> published,
                       check_published |-> check_published,
                       submitted |-> c.submit,
                       request |-> IF c.submit THEN request ELSE NoRequest,
                       status |-> 0, value |-> <<>>]
    /\ UNCHANGED <<summary, description, focus, amend, amend_enabled, sign,
                   git_commit_date, linebreak, commit_action_enabled, commitmsg,
                   msg_queue, finished_queue,
                   dialog,
                   last_commit_datetime, last_commit_datetime_backup,
                   resolved>>

\* The task ends with some exit status; runtask stops the progress bar, which
\* enables the widgets it disabled, and emits commit_finished (queued).
task_finished(status) ==
    /\ running > 0
    /\ running' = running - 1
    /\ commit_button_enabled' = TRUE
    /\ fields_enabled' = TRUE
    /\ finished_queue' = Append(finished_queue, status)
    /\ last' = Quiet
    /\ UNCHANGED <<summary, description, focus, amend, amend_enabled, sign,
                   bypass, commit_date_checked, git_commit_date, linebreak,
                   commit_action_enabled, commitmsg, msg_queue, staged, modified,
                   date_uses,
                   dialog,
                   last_commit_datetime, last_commit_datetime_backup,
                   resolved>>

\* _commit_finished() emptying the fields and leaving the focus where it is.
commit_finished_resetting ==
    /\ finished_queue # <<>>
    /\ last' = [Quiet EXCEPT !.kind = "finished",
                             !.dialogs = <<<<"Commit failed", "ok">>>>,
                             !.status = Head(finished_queue)]
    /\ finished_queue' = Tail(finished_queue)
    /\ summary' = <<>>
    /\ description' = <<>>
    /\ UNCHANGED <<focus, amend, amend_enabled, sign, bypass,
                   commit_date_checked, git_commit_date, linebreak,
                   commit_action_enabled, commit_button_enabled, fields_enabled,
                   commitmsg, msg_queue, staged, modified, running, date_uses,
                   dialog,
                   last_commit_datetime, last_commit_datetime_backup,
                   resolved>>

\* _commit_finished(task): the result is reported and the editor takes the
\* focus, which its focus proxy, the summary, receives.
commit_finished ==
    /\ finished_queue # <<>>
    /\ last' = [Quiet EXCEPT !.kind = "finished",
                             !.dialogs = <<<<"Commit failed", "ok">>>>,
                             !.status = Head(finished_queue)]
    /\ finished_queue' = Tail(finished_queue)
    /\ focus' = "summary"
    /\ UNCHANGED <<summary, description, amend, amend_enabled, sign, bypass,
                   commit_date_checked, git_commit_date, linebreak,
                   commit_action_enabled, commit_button_enabled, fields_enabled,
                   commitmsg, msg_queue, staged, modified, running, date_uses,
                   dialog,
                   last_commit_datetime, last_commit_datetime_backup,
                   resolved>>

-----------------------------------------------------------------------------
(* CommitDateDialog: its handlers.  Its outcome, accepted with a date or     *)
(* cancelled, is what set_commit_date() above takes as its inputs.           *)

editor_vars ==
    <<summary, description, focus, amend, amend_enabled, sign, bypass,
      commit_date_checked, git_commit_date, linebreak, commit_action_enabled,
      commit_button_enabled, fields_enabled, commitmsg, msg_queue, staged,
      modified, running, finished_queue, date_uses, last_commit_datetime,
      last_commit_datetime_backup, last>>

\* CommitDateDialog.__init__: the time field, the calendar and the slider are
\* set from commit_datetime before any signal is connected.
CommitDateDialog_init(commit_datetime) ==
    /\ ~dialog.open
    /\ dialog' = [open |-> TRUE,
                  time |-> commit_datetime.time,
                  day |-> commit_datetime.day,
                  slider |-> seconds_to_slider(commit_datetime.time),
                  kind |-> "init", input |-> commit_datetime.time,
                  query |-> NoQuery,
                  writes |-> <<"time", "calendar", "slider">>]
    /\ UNCHANGED <<editor_vars, resolved>>

\* _update_time_from_slider() writing the time field with its signals on:
\* timeChanged then runs _update_slider_from_time, which sets the slider.
update_time_from_slider_unblocked(value) ==
    /\ dialog.open
    /\ value \in 0..slider_range
    /\ value # dialog.slider
    /\ dialog' = [dialog EXCEPT
                     !.time = slider_to_seconds(value),
                     !.slider = seconds_to_slider(slider_to_seconds(value)),
                     !.kind = "slider", !.input = value,
                     !.writes = IF slider_to_seconds(value) # dialog.time
                                THEN <<"time", "slider">> ELSE <<"time">>]
    /\ UNCHANGED <<editor_vars, resolved>>

\* The slider's value becomes `value`: slider.valueChanged ->
\* _update_time_from_slider(value), which writes the time field with the
\* field's signals blocked.
update_time_from_slider(value) ==
    /\ dialog.open
    /\ value \in 0..slider_range
    /\ value # dialog.slider
    /\ dialog' = [dialog EXCEPT
                     !.slider = value,
                     !.time = slider_to_seconds(value),
                     !.kind = "slider", !.input = value,
                     !.writes = <<"time">>]
    /\ UNCHANGED <<editor_vars, resolved>>

\* _adjust_slider(amount): the tick buttons and Ctrl+Left / Ctrl+Right.
adjust_slider(amount) ==
    update_time_from_slider(ClampSlider(dialog.slider + amount))

\* The user edits the time field: time_widget.timeChanged ->
\* _update_slider_from_time_signal(new_time), which writes the slider with
\* the slider's signals blocked.
update_slider_from_time_signal(new_time) ==
    /\ dialog.open
    /\ new_time # dialog.time
    /\ dialog' = [dialog EXCEPT
                     !.time = new_time,
                     !.slider = seconds_to_slider(new_time),
                     !.kind = "time", !.input = new_time,
                     !.writes = <<"slider">>]
    /\ UNCHANGED <<editor_vars, resolved>>

\* _reset_commit_time(): the time field, the calendar and the slider are set
\* from the latest commit's time, each with its signals blocked.
reset_commit_time(status, out, now) ==
    /\ dialog.open
    /\ LET commit_datetime == get_latest_commit_datetime(status, out, now) IN
       dialog' = [dialog EXCEPT
                     !.time = commit_datetime.time,
                     !.day = commit_datetime.day,
                     !.slider = seconds_to_slider(commit_datetime.time),
                     !.kind = "reset", !.input = commit_datetime.time,
                     !.query = [status |-> status, out |-> out, now |-> now],
                     !.writes = <<"time", "calendar", "slider">>]
    /\ UNCHANGED <<editor_vars, resolved>>

-----------------------------------------------------------------------------
(* cola/icons.py: looking up the icon of a file *)

\* from_filename(filename): core.guess_mimetype() answers mimetype and
\* basename_from_filename() names the icon.
from_filename(filename, mimetype) ==
    /\ resolved' = [done |-> TRUE, filename |-> filename, mimetype |-> mimetype,
                    basename |-> basename_from_filename(filename, mimetype)]
    /\ UNCHANGED <<editor_vars, dialog>>

-----------------------------------------------------------------------------
(* The editor as a state machine *)

\* commit() with every combination of repository facts and dialog answers.
Commit ==
    \E via \in {"button", "action"}, is_merging \in BOOLEAN,
       published \in BOOLEAN, check_published \in BOOLEAN,
       accept_stage \in BOOLEAN, confirm_amend \in BOOLEAN :
       commit(via, is_merging, published, check_published, accept_stage,
              confirm_amend)

\* The commit workflow with one task at a time: the fields, the toggles, the
\* date override, the repository status, commit() while no task is in flight,
\* and the task's completion.
Next ==
    \/ \E value \in SampleTexts : commit_summary_changed(value)
    \/ \E value \in SampleTexts : commit_description_changed(value)
    \/ set_commit_message
    \/ toggle_amend
    \/ toggle_sign
    \/ toggle_bypass
    \/ \E accepted \in BOOLEAN, commit_date \in Dates : set_commit_date(accepted, commit_date)
    \/ \E new_staged \in SUBSET Files, new_modified \in SUBSET Files :
          update_status(new_staged, new_modified)
    \/ InFlight = 0 /\ Commit
    \/ \E status \in ExitStatuses : task_finished(status)
    \/ commit_finished

Spec == Init /\ [][Next]_vars

\* Overlapping tasks: the fields, messages loaded into the model and their
\* queued delivery, commit() from either control at any time, completions.
NextTasks ==
    \/ \E value \in SampleTexts : commit_summary_changed(value)
    \/ \E value \in SampleTexts : commit_description_changed(value)
    \/ move_focus
    \/ \E message \in SampleMessages : load_commitmsg(message)
    \/ \E confirmed \in BOOLEAN : clear(confirmed)
    \/ set_commit_message
    \/ InFlight < MaxInFlight /\ Commit
    \/ \E status \in ExitStatuses : task_finished(status)
    \/ commit_finished

SpecTasks == Init /\ [][NextTasks]_vars

\* The message functions on every text: typing and pasting into the fields,
\* loading a message once the one before was delivered, auto-wrap on and off.
NextText ==
    \/ \E value \in Texts(MaxLen) : commit_summary_changed(value)
    \/ \E value \in Texts(MaxLen) : commit_description_changed(value)
    \/ msg_queue = <<>> /\ \E message \in SampleMessages : load_commitmsg(message)
    \/ set_commit_message
    \/ \E brk \in BOOLEAN : set_linebreak(brk)

SpecText == Init /\ [][NextText]_vars

\* Parsing and wrapping: messages of every shape loaded and delivered,
\* descriptions that wrapping changes, auto-wrap on and off, and commit() with
\* one task at a time.
NextMessage ==
    \/ \E value \in SampleTexts : commit_summary_changed(value)
    \/ \E value \in WrapTexts : commit_description_changed(value)
    \/ msg_queue = <<>> /\ \E message \in ParsedMessages : load_commitmsg(message)
    \/ set_commit_message
    \/ \E brk \in BOOLEAN : set_linebreak(brk)
    \/ InFlight = 0 /\ Commit
    \/ \E status \in ExitStatuses : task_finished(status)
    \/ commit_finished

SpecMessage == Init /\ [][NextMessage]_vars

\* The date dialog of an editor that was just constructed: opened with any
\* time of day, then the slider, the tick buttons, the time field and the
\* reset button in any order.
InitDate ==
    /\ Init
    /\ commitmsg = <<>>
    /\ staged = {}
    /\ modified = {}

NextDate ==
    \/ ~dialog.open /\ \E time \in 0..seconds_range :
          CommitDateDialog_init([day |-> "day1", time |-> time])
    \/ \E value \in SliderDrags : update_time_from_slider(value)
    \/ \E amount \in {-1, 1} : adjust_slider(amount)
    \/ \E new_time \in SampleTimes : update_slider_from_time_signal(new_time)
    \/ \E status \in ExitStatuses, out \in LogOutputs, now \in Nows :
          reset_commit_time(status, out, now)

SpecDate == InitDate /\ [][NextDate]_vars

\* The icons of files, looked up for every file name with every answer of
\* the mime type guess.
NextIcons ==
    \E filename \in Filenames, mimetype \in MimeTypes \cup {NoMime} :
        from_filename(filename, mimetype)

SpecIcons == InitDate /\ [][NextIcons]_vars

\* The remembered commit date: the modes the model goes through and the date
\* dialog accepted or cancelled, while the summary is edited.
NextMode ==
    \/ \E mode \in {"none", "amend", "worktree"}, is_merging \in BOOLEAN,
          latest \in LatestCommitDatetimes : set_mode(mode, is_merging, latest)
    \/ \E accepted \in BOOLEAN, commit_date \in Dates : set_commit_date(accepted, commit_date)
    \/ \E value \in SampleTexts : commit_summary_changed(value)
    \/ set_commit_message

SpecMode == Init /\ [][NextMode]_vars

-----------------------------------------------------------------------------
(* Properties *)

\* A step of commit(): the only action that leaves last.kind = "commit".
CommitStep == last'.kind = "commit"

\* A commit() step that submitted a task.
SubmitStep == CommitStep /\ last'.submitted

\* A step of _commit_finished(): the only action that shortens finished_queue.
FinishedStep == Len(finished_queue') < Len(finished_queue)

Shown(prompt, dialogs) == \E i \in 1..Len(dialogs) : dialogs[i] = prompt

\* C1: when commit() runs with an empty summary it shows the "Missing Commit
\* Message" information dialog and nothing else, and it submits no task: no
\* task is added to the running ones and none is queued as finished.
C1_EmptySummaryAborts ==
    [][(CommitStep /\ summary = <<>>) =>
          /\ last'.dialogs = <<MissingMessage>>
          /\ ~last'.submitted
          /\ running' = running
          /\ finished_queue' = finished_queue]_vars

\* commit() has run with an empty summary while files were staged and the
\* amend and bypass toggles were on.
C1_Witness ==
    /\ last.kind = "commit"
    /\ summary = <<>>
    /\ staged # {}
    /\ amend
    /\ bypass
    /\ last.dialogs = <<MissingMessage>>

\* C2: commit() submits a task only if files were staged, or a merge is in
\* progress, or files were modified and the user accepted the "Stage and
\* commit?" prompt, in which case every modified file is staged by the time
\* of the submission.  With a summary, nothing staged, no merge and nothing
\* modified it shows "Nothing to commit" and submits nothing; a declined
\* prompt submits nothing.
C2_StagedOrMergingOrAccepted ==
    [][CommitStep =>
          /\ last'.submitted =>
                \/ staged # {}
                \/ last'.is_merging
                \/ /\ modified # {}
                   /\ Shown(StagePrompt(TRUE), last'.dialogs)
                   /\ staged' = staged \cup modified
          /\ (summary # <<>> /\ staged = {} /\ ~last'.is_merging /\ modified = {}) =>
                /\ last'.dialogs = <<NothingToCommit>>
                /\ ~last'.submitted
          /\ Shown(StagePrompt(FALSE), last'.dialogs) => ~last'.submitted
          /\ last'.submitted <=> running' = running + 1]_vars

\* A task was submitted after the user accepted to stage the modified files.
C2_Witness ==
    /\ last.kind = "commit"
    /\ last.submitted
    /\ ~last.is_merging
    /\ Shown(StagePrompt(TRUE), last.dialogs)
    /\ staged # {}
    /\ running = 1

\* C3, as stated: no task with amend=true is submitted for a published commit
\* unless the user confirmed the "Rewrite Published Commit?" prompt.
C3_AmendPublishedAlwaysConfirmed ==
    [][(SubmitStep /\ last'.request.amend /\ last'.published) =>
          Shown(AmendPrompt(TRUE), last'.dialogs)]_vars

\* C3, amended: when the preference to check published commits is on, no task
\* with amend=true is submitted for a published commit unless the user
\* confirmed the prompt; a declined prompt submits no task; with the
\* preference off the prompt is not shown at all.
C3_AmendPublishedConfirmedWhenChecked ==
    [][CommitStep =>
          /\ (last'.submitted /\ last'.request.amend /\ last'.published
                /\ last'.check_published) =>
                Shown(AmendPrompt(TRUE), last'.dialogs)
          /\ Shown(AmendPrompt(FALSE), last'.dialogs) => ~last'.submitted
          /\ ~last'.check_published =>
                /\ ~Shown(AmendPrompt(TRUE), last'.dialogs)
                /\ ~Shown(AmendPrompt(FALSE), last'.dialogs)]_vars

\* An amending task for a published commit was submitted after the user
\* confirmed the prompt.
C3_Witness ==
    /\ last.kind = "commit"
    /\ last.submitted
    /\ last.request.amend
    /\ last.published
    /\ last.check_published
    /\ Shown(AmendPrompt(TRUE), last.dialogs)

\* The dialog sequences of a commit() that stops at the first failed check,
\* the checks being made in the order summary, staged files, amend.
AbortedSequences ==
    {<<MissingMessage>>, <<NothingToCommit>>, <<StagePrompt(FALSE)>>,
     <<AmendPrompt(FALSE)>>, <<StagePrompt(TRUE), AmendPrompt(FALSE)>>}

PassedSequences ==
    {<<>>, <<StagePrompt(TRUE)>>, <<AmendPrompt(TRUE)>>,
     <<StagePrompt(TRUE), AmendPrompt(TRUE)>>}

\* C4: commit() checks the summary, then the staged files, then the amend of a
\* published commit, and stops at the first check that fails: the dialogs it
\* shows are in that order, nothing is shown after a dialog that aborted, an
\* empty summary shows the first dialog alone, the dialogs of the second check
\* appear only when nothing is staged and no merge is in progress, and a task
\* is submitted exactly when no shown dialog aborted.
C4_ChecksInOrder ==
    [][CommitStep =>
          /\ last'.dialogs \in AbortedSequences \cup PassedSequences
          /\ last'.submitted <=> last'.dialogs \in PassedSequences
          /\ summary = <<>> <=> last'.dialogs = <<MissingMessage>>
          /\ (summary # <<>> /\ staged = {} /\ ~last'.is_merging) <=>
                \/ last'.dialogs = <<NothingToCommit>>
                \/ Shown(StagePrompt(TRUE), last'.dialogs)
                \/ Shown(StagePrompt(FALSE), last'.dialogs)
          /\ last'.submitted =>
                /\ summary # <<>>
                /\ staged' # {} \/ last'.is_merging]_vars

\* commit() passed the second check with the user's consent and was stopped
\* by the third.
C4_Witness ==
    /\ last.kind = "commit"
    /\ last.dialogs = <<StagePrompt(TRUE), AmendPrompt(FALSE)>>
    /\ ~last.submitted

\* C5: a submitted task carries the accepted date exactly when "Set Commit
\* Date" is checked, and None otherwise; the submission unchecks the action,
\* so the date accepted last is carried by at most one task; a checked action
\* always has a date.
C5_DateOverrideSingleUse ==
    /\ [](date_uses <= 1)
    /\ [](commit_date_checked => git_commit_date \in Dates)
    /\ [][SubmitStep =>
             /\ last'.request.date =
                   (IF commit_date_checked THEN git_commit_date ELSE None)
             /\ ~commit_date_checked']_vars

\* After a task carried the accepted date, a following commit() submitted a
\* task without a date although the editor still remembers the date.
C5_Witness ==
    /\ last.kind = "commit"
    /\ last.submitted
    /\ last.request.date = None
    /\ git_commit_date \in Dates
    /\ date_uses = 1

\* C6: every submission passes the value the bypass toggle had before it and
\* leaves the toggle off; the end of the task and its completion handler do
\* not touch the toggle.
C6_BypassOneShot ==
    /\ [][SubmitStep =>
             /\ last'.request.no_verify = bypass
             /\ ~bypass']_vars
    /\ [][(running' < running \/ FinishedStep) => bypass' = bypass]_vars

\* A task was submitted with no_verify on and the toggle is off again.
C6_Witness ==
    /\ last.kind = "commit"
    /\ last.submitted
    /\ last.request.no_verify
    /\ ~bypass

\* C7: at most one commit task is in flight (submitted, its completion not yet
\* handled) at any time.
C7_OneTaskInFlight == InFlight <= 1

\* C8: the completion handler reports the result of the finished task, gives
\* the focus to the summary and leaves both fields as they are, whatever the
\* exit status; the submission and the end of the task leave the fields as
\* they are too.
C8_FinishedReportsAndKeepsFields ==
    /\ [][FinishedStep =>
             /\ last'.kind = "finished"
             /\ last'.status = Head(finished_queue)
             /\ focus' = "summary"
             /\ summary' = summary
             /\ description' = description]_vars
    /\ [][(SubmitStep \/ running' < running) =>
             /\ summary' = summary
             /\ description' = description]_vars

\* A failed task was reported while both fields held text.
C8_Witness ==
    /\ last.kind = "finished"
    /\ last.status = 1
    /\ summary # <<>>
    /\ description # <<>>
    /\ focus = "summary"

\* C9: a commit() that stops at the empty summary or at "Nothing to commit"
\* changes nothing: the fields, the toggles, the date override, the staged
\* and modified files, the tasks and the controls are as before.
C9_ValidationAbortChangesNothing ==
    [][(CommitStep /\ (\/ summary = <<>>
                       \/ staged = {} /\ ~last'.is_merging /\ modified = {})) =>
          UNCHANGED <<summary, description, focus, amend, amend_enabled, sign,
                      bypass, commit_date_checked, git_commit_date, linebreak,
                      commit_action_enabled, commit_button_enabled,
                      fields_enabled, commitmsg, msg_queue, staged, modified,
                      running, finished_queue, date_uses>>]_vars

\* "Nothing to commit" was shown while every toggle and the date override
\* were on.
C9_Witness ==
    /\ last.kind = "commit"
    /\ last.dialogs = <<NothingToCommit>>
    /\ amend /\ sign /\ bypass /\ commit_date_checked
    /\ description # <<>>

\* C10: the joined message is summary, two newlines, description when both
\* fields are non-empty, the summary alone when only it is non-empty, two
\* newlines and the description when only the description is non-empty, and
\* empty when both are empty; auto-wrap has no part in it.
C10_JoinedMessage ==
    LET m == commit_message(summary, description, TRUE, linebreak) IN
    /\ (summary # <<>> /\ description # <<>>) =>
          m = summary \o <<NL, NL>> \o description
    /\ (summary # <<>> /\ description = <<>>) => m = summary
    /\ (summary = <<>> /\ description # <<>>) => m = <<NL, NL>> \o description
    /\ (summary = <<>> /\ description = <<>>) => m = <<>>
    /\ m = commit_message(summary, description, TRUE, ~linebreak)

\* Only the description holds text, text that wrapping would change, and the
\* model holds the joined message of the two fields.
C10_Witness ==
    /\ summary = <<>>
    /\ description = <<SP, "a">>
    /\ linebreak
    /\ commitmsg = <<NL, NL, SP, "a">>

\* C11: for a summary without a newline, composing the message of the two
\* fields with commit_message and parsing it with set_commit_message gives
\* the two fields back (an empty description comes back empty).
C11_RoundTrip ==
    ~HasNL(summary) =>
        LET m == commit_message(summary, description, TRUE, linebreak) IN
        /\ ParseSummary(m) = summary
        /\ ParseDescription(m) = description

\* A step of commit_summary_changed() whose value holds a newline.
PasteStep == last'.kind = "paste"

\* C12, as stated: a value with a newline leaves the text before the first
\* newline as the summary, and as the description the remainder after that
\* newline, followed by a newline and the previous description if there was
\* one.
C12_PasteSplitsAtFirstNewline ==
    [][PasteStep =>
          LET v == last'.value
              i == FirstNL(v, 1)
              rest == SubSeq(v, i + 1, Len(v))
          IN  /\ summary' = SubSeq(v, 1, i - 1)
              /\ ~HasNL(summary')
              /\ description' = IF description # <<>>
                                THEN rest \o <<NL>> \o description
                                ELSE rest]_vars

\* C12, amended: the remainder loses its leading newlines before it becomes
\* the description; the rest is as stated.
C12_PasteSplitsAndStrips ==
    [][PasteStep =>
          LET v == last'.value
              i == FirstNL(v, 1)
              rest == LStripNL(SubSeq(v, i + 1, Len(v)))
          IN  /\ summary' = SubSeq(v, 1, i - 1)
              /\ ~HasNL(summary')
              /\ description' = IF description # <<>>
                                THEN rest \o <<NL>> \o description
                                ELSE rest]_vars

\* "a" and a newline were pasted into the summary while the description held
\* "a": the description now starts with the separating newline.
C12_Witness ==
    /\ last.kind = "paste"
    /\ last.value = <<"a", NL>>
    /\ summary = <<"a">>
    /\ description = <<NL, "a">>

\* A step of set_commit_message(): a queued message is delivered.
MessageStep == last'.kind = "message"

\* C13: set_commit_message(text) makes line 0 of the text the summary (empty
\* when there is no line); with no further line the description is empty,
\* with exactly one it is that line, with more it is the lines from line 1 on
\* joined with newlines, line 1 being left out only if it is blank.
C13_ParsedFields ==
    [][MessageStep =>
          LET lines == splitlines(last'.value)
              n == Len(lines)
          IN  /\ last'.value = Head(msg_queue)
              /\ summary' = IF n = 0 THEN <<>> ELSE lines[1]
              /\ n <= 1 => description' = <<>>
              /\ n = 2 => description' = lines[2]
              /\ (n > 2 /\ lines[2] = <<>>) =>
                    description' = JoinNL(SubSeq(lines, 3, n))
              /\ (n > 2 /\ lines[2] # <<>>) =>
                    description' = JoinNL(SubSeq(lines, 2, n))]_vars

\* A message of three lines whose second line is not blank was delivered: the
\* description keeps the second line.
C13_Witness ==
    /\ last.kind = "message"
    /\ last.value = <<"a", NL, "a", NL, "a">>
    /\ summary = <<"a">>
    /\ description = <<"a", NL, "a">>

\* C14: the message of a submitted task is the summary, two newlines and the
\* description, the description being wrapped exactly when auto-wrap is on
\* (an empty description adds nothing); commit() leaves the description field
\* and the model's message as they are, submitting or not.
C14_WrapOnlyInTaskMessage ==
    /\ [][SubmitStep =>
             LET desc == IF linebreak THEN word_wrap(description, TextWidth)
                         ELSE description
             IN  last'.request.msg = IF desc # <<>>
                                     THEN summary \o <<NL, NL>> \o desc
                                     ELSE summary]_vars
    /\ [][CommitStep =>
             /\ description' = description
             /\ commitmsg' = commitmsg
             /\ linebreak' = linebreak]_vars

\* With auto-wrap on a task was submitted with the wrapped description, while
\* the field and the model keep the text as typed.
C14_Witness ==
    /\ last.kind = "commit"
    /\ last.submitted
    /\ linebreak
    /\ description = <<SP, "a">>
    /\ last.request.msg = <<"a", NL, NL, "a">>
    /\ commitmsg = <<"a", NL, NL, SP, "a">>

\* A step of one of the handlers of the user's edits of the two fields.
EditStep == last'.kind \in {"edit", "paste"}

\* C15: after every edit of the summary or the description, a paste with
\* newlines into the summary included, the model's message is the raw joined
\* message of the two fields as they are after the edit, and no notification
\* of the change is queued for the editor.
C15_EditPushesRawMessage ==
    [][EditStep =>
          /\ commitmsg' =
                IF summary' # <<>> /\ description' # <<>>
                THEN summary' \o <<NL, NL>> \o description'
                ELSE IF summary' # <<>> THEN summary'
                ELSE IF description' # <<>> THEN <<NL, NL>> \o description'
                ELSE <<>>
          /\ msg_queue' = msg_queue]_vars

\* After a paste of "a" and a newline into the summary, with "a" as the
\* description before, the model holds the message of the new fields and
\* nothing is queued.
C15_Witness ==
    /\ last.kind = "paste"
    /\ summary = <<"a">>
    /\ description = <<NL, "a">>
    /\ commitmsg = <<"a", NL, NL, NL, "a">>
    /\ msg_queue = <<>>

\* A step of set_commit_date() in which the date dialog was cancelled.
DateCancelStep == last'.kind = "date" /\ last'.dialogs = <<DateDialog(FALSE)>>

\* C16: cancelling the date dialog leaves "Set Commit Date" unchecked; a task
\* submitted while it is unchecked carries no date, whatever date the editor
\* remembers from before; and the action gets checked only by a dialog that is
\* accepted.  So the task submitted next after a cancel carries no date.
C16_CancelLeavesOverrideUnset ==
    /\ [][DateCancelStep =>
             /\ ~commit_date_checked'
             /\ git_commit_date' = git_commit_date]_vars
    /\ [][(SubmitStep /\ ~commit_date_checked) =>
             last'.request.date = None]_vars
    /\ [][(~commit_date_checked /\ commit_date_checked') =>
             last'.dialogs = <<DateDialog(TRUE)>>]_vars

\* The dialog was cancelled after an accepted date had been carried by a
\* task: the editor still remembers that date and the action is unchecked.
C16_Witness ==
    /\ last.kind = "date"
    /\ last.dialogs = <<DateDialog(FALSE)>>
    /\ git_commit_date \in Dates
    /\ date_uses = 1
    /\ ~commit_date_checked

\* Steps of the dialog's handlers of the slider, the time field and the reset
\* button.
SliderStep == dialog' # dialog /\ dialog'.kind = "slider"
TimeStep == dialog' # dialog /\ dialog'.kind = "time"
ResetStep == dialog' # dialog /\ dialog'.kind = "reset"

\* C17: for every slider value v in 0..500 the time of day written to the
\* time field is round(v / 500 * 86399) seconds after midnight.
C17_SliderSecondsRounded ==
    [][SliderStep =>
          LET v == dialog'.input IN
          dialog'.time = (2 * v * 86399 + 500) \div 1000]_vars

\* C18: for every whole second t in [0, 86399), the slider value the
\* time-to-slider mapping gives for t is mapped back by the slider-to-time
\* mapping to a time that differs from t by no more than one tick, 86399 / 500
\* seconds.
C18_RoundTripWithinOneTick ==
    (dialog.open /\ dialog.kind \in {"init", "time", "reset"}
       /\ dialog.time < seconds_range) =>
        LET back == slider_to_seconds(dialog.slider)
            diff == IF back > dialog.time THEN back - dialog.time
                    ELSE dialog.time - back
        IN  slider_range * diff <= seconds_range

\* C19: a change of the slider writes the time field and nothing else: the
\* slider keeps the value the user chose; an edit of the time field writes
\* the slider and nothing else: the time field keeps the time the user
\* entered.
C19_NoFeedback ==
    /\ [][SliderStep =>
             /\ dialog'.slider = dialog'.input
             /\ dialog'.time = slider_to_seconds(dialog'.input)
             /\ dialog'.writes = <<"time">>
             /\ dialog'.day = dialog.day]_vars
    /\ [][TimeStep =>
             /\ dialog'.time = dialog'.input
             /\ dialog'.slider = seconds_to_slider(dialog'.input)
             /\ dialog'.writes = <<"slider">>
             /\ dialog'.day = dialog.day]_vars

\* The slider was moved to 1: the time field shows 00:02:52, which the
\* time-to-slider mapping would take back to 0, and the slider is still at 1.
C19_Witness ==
    /\ dialog.kind = "slider"
    /\ dialog.input = 1
    /\ dialog.slider = 1
    /\ dialog.time = 172
    /\ seconds_to_slider(dialog.time) = 0

\* C20: the reset button sets the time field and the calendar from the
\* authored time of the latest commit, or from the current time when the
\* query has a non-zero status, prints nothing or prints no ISO date, and
\* leaves the slider at the slider mapping of the new time.
C20_ResetFallsBackToNow ==
    [][ResetStep =>
          LET q == dialog'.query
              failed == q.status # 0 \/ q.out.text = "" \/ q.out.text = "garbage"
          IN  /\ dialog'.time = IF failed THEN q.now.time ELSE q.out.time
              /\ dialog'.day = IF failed THEN q.now.day ELSE q.out.day
              /\ dialog'.slider = (500 * dialog'.time) \div 86399
              /\ dialog'.open]_vars

\* The query succeeded with output that is no ISO date: the dialog shows the
\* current time, noon, and the slider is in the middle.
C20_Witness ==
    /\ dialog.kind = "reset"
    /\ dialog.query.status = 0
    /\ dialog.query.out.text = "garbage"
    /\ dialog.time = 43200
    /\ dialog.slider = 250

\* C21: every lookup names an icon.  When a mime type was guessed, the first
\* of "text", "image", "octet" that occurs in the lower-cased type decides:
\* the code, the media or the binary icon.  When none was guessed or none
\* occurs, the lower-cased extension decides: the code icon if it is in the
\* extension table (so for a.py, a.PY and a.Py alike), the text icon if not.
C21_Classifies ==
    resolved.done =>
        LET mt == lower(resolved.mimetype)
            guessed == resolved.mimetype # NoMime
            text == guessed /\ Contains(<<"t", "e", "x", "t">>, mt)
            image == guessed /\ Contains(<<"i", "m", "a", "g", "e">>, mt)
            octet == guessed /\ Contains(<<"o", "c", "t", "e", "t">>, mt)
            ext == lower(splitext(resolved.filename))
        IN  /\ resolved.basename \in
                  {"file-code.svg", "file-media.svg", "file-binary.svg", "file-text.svg"}
            /\ text => resolved.basename = "file-code.svg"
            /\ (~text /\ image) => resolved.basename = "file-media.svg"
            /\ (~text /\ ~image /\ octet) => resolved.basename = "file-binary.svg"
            /\ (~text /\ ~image /\ ~octet) =>
                  /\ resolved.basename = IF ext \in KNOWN_FILE_EXTENSIONS
                                         THEN "file-code.svg" ELSE "file-text.svg"
                  /\ resolved.filename \in {<<"a", ".", "p", "y">>, <<"a", ".", "P", "Y">>, <<"a", ".", "P", "y">>} =>
                        resolved.basename = "file-code.svg"
                  /\ resolved.filename \in {<<".", "p", "y">>, <<"a", ".", "p", "y", "c">>, <<"a", ".", "b", "/", "c">>} =>
                        resolved.basename = "file-text.svg"

\* a.PY was looked up with a guessed type that matches no pair: the extension
\* table decided.
C21_Witness ==
    /\ resolved.done
    /\ resolved.filename = <<"a", ".", "P", "Y">>
    /\ resolved.mimetype = <<"a", "p", "p", "l", "i", "c", "a", "t", "i", "o", "n", "/", "p", "d", "f">>
    /\ resolved.basename = "file-code.svg"

\* C22: whenever the guessed mime type contains "image", the icon is the
\* image icon, file-media.svg, whatever the extension.
C22_ImageMimeGivesImageIcon ==
    (resolved.done /\ resolved.mimetype # NoMime
       /\ Contains(<<"i", "m", "a", "g", "e">>, resolved.mimetype)) =>
        resolved.basename = "file-media.svg"

\* C23: a commit() that submits no task leaves the set of staged files as it
\* was before the call.
C23_AbortKeepsStaged ==
    [][(CommitStep /\ ~last'.submitted) => staged' = staged]_vars

\* A step of set_mode().
ModeStep == last'.kind = "mode"

\* C24: a set_mode() call that neither enters nor leaves amend mode does not
\* change the remembered commit datetime; entering amend mode stores it and
\* leaving amend mode restores what was stored.
C24_RememberedDatetimeRestored ==
    /\ [][(ModeStep /\ amend' = amend) =>
             last_commit_datetime' = last_commit_datetime]_vars
    /\ [][(ModeStep /\ ~amend /\ amend') =>
             last_commit_datetime_backup' = last_commit_datetime]_vars
    /\ [][(ModeStep /\ amend /\ ~amend') =>
             last_commit_datetime' = last_commit_datetime_backup]_vars

====
